---- MODULE Spec2Model ----
(***************************************************************************)
(* Model of godot-test_defs/src/runner/config.rs: the command-line parser  *)
(* CliConfig::from_os and the merge of its result onto the caller-supplied *)
(* defaults in RunnerConfig::new.                                          *)
(*                                                                         *)
(* A string is a sequence of one-character strings, so that starts_with,   *)
(* split('=') and split(',') are computed character by character as the    *)
(* Rust standard library computes them.  The empty string is << >>.        *)
(***************************************************************************)
EXTENDS Integers, Sequences, FiniteSets, TLC

VARIABLES
    args,       \* Os::get_cmdline_user_args(): the user argument list
    headless,   \* is_headless_run()
    defaults,   \* the seven parameters handed to RunnerConfig::new
    pc,         \* "start", then "from_os" or "new" once the call returned
    cli,        \* outcome of CliConfig::from_os
    runner      \* outcome of RunnerConfig::new

vars == <<args, headless, defaults, pc, cli, runner>>

(***************************************************************************)
(* Bounds of the explored inputs.                                          *)
(***************************************************************************)
MaxArgs == 3        \* longest argument list handed to CliConfig::from_os
MaxNewArgs == 2     \* longest argument list handed to RunnerConfig::new

(***************************************************************************)
(* The flag names, config.rs lines 44-54.                                  *)
(***************************************************************************)
\* "--rust-test"
CMD_USER_RUST_TESTS ==
    <<"-","-","r","u","s","t","-","t","e","s","t">>

\* "--rust-bench"
CMD_USER_RUST_BENCHMARKS ==
    <<"-","-","r","u","s","t","-","b","e","n","c","h">>

\* "--disallow-focus"
CMD_USER_DISALLOW_FOCUS ==
    <<"-","-","d","i","s","a","l","l","o","w","-","f","o","c","u","s">>

\* "--allow-focus"
CMD_USER_ALLOW_FOCUS ==
    <<"-","-","a","l","l","o","w","-","f","o","c","u","s">>

\* "--disallow-skip"
CMD_USER_DISALLOW_SKIP ==
    <<"-","-","d","i","s","a","l","l","o","w","-","s","k","i","p">>

\* "--allow-skip"
CMD_USER_ALLOW_SKIP ==
    <<"-","-","a","l","l","o","w","-","s","k","i","p">>

\* "--mute-keyword"
CMD_USER_MUTE_KEYWORD ==
    <<"-","-","m","u","t","e","-","k","e","y","w","o","r","d">>

\* "--ignore-keywords"
CMD_USER_IGNORE_KEYWORDS ==
    <<"-","-","i","g","n","o","r","e","-","k","e","y","w","o","r","d","s">>

\* "--mute-filters"
CMD_USER_MUTE_FILTERS ==
    <<"-","-","m","u","t","e","-","f","i","l","t","e","r","s">>

\* "--keyword"
CMD_USER_KEYWORD ==
    <<"-","-","k","e","y","w","o","r","d">>

\* "--filters"
CMD_USER_FILTERS ==
    <<"-","-","f","i","l","t","e","r","s">>

(***************************************************************************)
(* Library functions the parser calls.                                     *)
(***************************************************************************)
\* str::starts_with(prefix)
starts_with(s, prefix) ==
    /\ Len(s) >= Len(prefix)
    /\ SubSeq(s, 1, Len(prefix)) = prefix

\* Position of the first occurrence of character c in s, 0 when there is none.
find_char(s, c) ==
    IF \E i \in 1..Len(s) : s[i] = c
    THEN CHOOSE i \in 1..Len(s) : s[i] = c /\ \A j \in 1..(i - 1) : s[j] # c
    ELSE 0

\* str::split(c).collect::<Vec<_>>(): the pieces between the occurrences of c,
\* empty pieces kept; a string without c (the empty one too) is one piece.
RECURSIVE split(_, _)
split(s, c) ==
    LET i == find_char(s, c)
    IN  IF i = 0
        THEN <<s>>
        ELSE <<SubSeq(s, 1, i - 1)>> \o split(SubSeq(s, i + 1, Len(s)), c)

\* Vec::remove(i), with i counted from 1
remove(v, i) ==
    SubSeq(v, 1, i - 1) \o SubSeq(v, i + 1, Len(v))

(***************************************************************************)
(* Outcomes of a call: Ok(value), Err(ConfigError) or a panic (the thread  *)
(* unwinds at an out-of-range index and no value is returned).             *)
(***************************************************************************)
Ok(v) == [tag |-> "Ok", value |-> v]

Err(e) == [tag |-> "Err", error |-> e]

Panic == [tag |-> "Panic"]

NotCalled == [tag |-> "NotCalled"]

\* ConfigError::new(message).  The message is kept as its format string and
\* the values substituted into it, in order.
ConfigError(format, values) ==
    [format |-> format, values |-> values]

(***************************************************************************)
(* CliConfig                                                               *)
(***************************************************************************)
\* check_unrecognized_args with the emptiness test inverted
check_unrecognized_args_inverted(unrecognized_args) ==
    IF unrecognized_args # << >>
    THEN Ok(TRUE)
    ELSE Err(ConfigError("unrecognized args provided: {:#?}", unrecognized_args))

\* CliConfig::check_unrecognized_args
check_unrecognized_args(unrecognized_args) ==
    IF unrecognized_args = << >>
    THEN Ok(TRUE)
    ELSE Err(ConfigError("unrecognized args provided: {:#?}", unrecognized_args))

\* check_mutually_exclusive_args matching (true, false) in place of (true, true)
check_mutually_exclusive_args_one_sided(arg_1_val, arg_2_val, arg_1, arg_2) ==
    IF arg_1_val /\ ~arg_2_val
    THEN Err(ConfigError("command line arguments {} and {} are mutually exclusive",
                         <<arg_1, arg_2>>))
    ELSE Ok(TRUE)

\* CliConfig::check_mutually_exclusive_args
check_mutually_exclusive_args(arg_1_val, arg_2_val, arg_1, arg_2) ==
    IF arg_1_val /\ arg_2_val
    THEN Err(ConfigError("command line arguments {} and {} are mutually exclusive",
                         <<arg_1, arg_2>>))
    ELSE Ok(TRUE)

\* The condition under which CliConfig::get_arg takes a token: cur_arg == get_arg
get_arg_matches(cur_arg, name) ==
    cur_arg = name

\* CliConfig::get_arg: the first token equal to the name is removed.
\* Returns the flag and the working list as the call leaves it.
get_arg(a, name) ==
    IF \E i \in 1..Len(a) : get_arg_matches(a[i], name)
    THEN LET i == CHOOSE k \in 1..Len(a) :
                      /\ get_arg_matches(a[k], name)
                      /\ \A j \in 1..(k - 1) : ~get_arg_matches(a[j], name)
         IN  [gotten |-> TRUE, args |-> remove(a, i)]
    ELSE [gotten |-> FALSE, args |-> a]

\* The condition under which CliConfig::get_arg_with_value takes a token:
\* arg_str.starts_with(get_arg)
get_arg_with_value_matches(arg_str, name) ==
    starts_with(arg_str, name)

\* arg_str.split('=').collect::<Vec<_>>()[1], None standing for the index
\* being out of range
value_text(arg_str) ==
    LET pieces == split(arg_str, "=")
    IN  IF Len(pieces) < 2 THEN [some |-> FALSE] ELSE [some |-> TRUE, text |-> pieces[2]]

\* CliConfig::get_arg_with_value: the first token that starts with the name is
\* taken; the piece after its first '=' is split on ','.  Returns the values and
\* the working list as the call leaves it, or panicked when the token has no '='.
get_arg_with_value(a, name) ==
    IF \E i \in 1..Len(a) : get_arg_with_value_matches(a[i], name)
    THEN LET i == CHOOSE k \in 1..Len(a) :
                      /\ get_arg_with_value_matches(a[k], name)
                      /\ \A j \in 1..(k - 1) : ~get_arg_with_value_matches(a[j], name)
             v == value_text(a[i])
         IN  IF ~v.some
             THEN [panicked |-> TRUE, values |-> << >>, args |-> a]
             ELSE [panicked |-> FALSE, values |-> split(v.text, ","), args |-> remove(a, i)]
    ELSE [panicked |-> FALSE, values |-> << >>, args |-> a]

\* let keyword = if keyword_arg.is_empty() { "" } else { keyword_arg[0] }
keyword_of(keyword_arg) ==
    IF keyword_arg = << >> THEN << >> ELSE keyword_arg[1]

\* CliConfig::from_os, on the argument list a
from_os(a) ==
    LET rt == get_arg(a, CMD_USER_RUST_TESTS)
        rb == get_arg(rt.args, CMD_USER_RUST_BENCHMARKS)
        af == get_arg(rb.args, CMD_USER_ALLOW_FOCUS)
        df == get_arg(af.args, CMD_USER_DISALLOW_FOCUS)
        focus == check_mutually_exclusive_args(af.gotten, df.gotten,
                     CMD_USER_ALLOW_FOCUS, CMD_USER_DISALLOW_FOCUS)
        as == get_arg(df.args, CMD_USER_ALLOW_SKIP)
        ds == get_arg(as.args, CMD_USER_DISALLOW_SKIP)
        skip == check_mutually_exclusive_args(as.gotten, ds.gotten,
                     CMD_USER_ALLOW_SKIP, CMD_USER_DISALLOW_SKIP)
        mk == get_arg(ds.args, CMD_USER_MUTE_KEYWORD)
        ik == get_arg(mk.args, CMD_USER_IGNORE_KEYWORDS)
        kw == get_arg_with_value(ik.args, CMD_USER_KEYWORD)
        keyword == keyword_of(kw.values)
        kwx == check_mutually_exclusive_args(mk.gotten, keyword # << >>,
                     CMD_USER_MUTE_KEYWORD, CMD_USER_KEYWORD)
        mf == get_arg(kw.args, CMD_USER_MUTE_FILTERS)
        fl == get_arg_with_value(mf.args, CMD_USER_FILTERS)
        flx == check_mutually_exclusive_args(mf.gotten, fl.values # << >>,
                     CMD_USER_MUTE_FILTERS, CMD_USER_FILTERS)
        rest == check_unrecognized_args(fl.args)
    IN  IF focus.tag = "Err" THEN focus
        ELSE IF skip.tag = "Err" THEN skip
        ELSE IF kw.panicked THEN Panic
        ELSE IF kwx.tag = "Err" THEN kwx
        ELSE IF fl.panicked THEN Panic
        ELSE IF flx.tag = "Err" THEN flx
        ELSE IF rest.tag = "Err" THEN rest
        ELSE Ok([disallow_focus |-> df.gotten,
                 allow_focus |-> af.gotten,
                 disallow_skip |-> ds.gotten,
                 allow_skip |-> as.gotten,
                 mute_keyword |-> mk.gotten,
                 ignore_keywords |-> ik.gotten,
                 mute_filters |-> mf.gotten,
                 run_rust_tests |-> rt.gotten,
                 run_rust_benchmarks |-> rb.gotten,
                 keyword |-> keyword,
                 filters |-> fl.values])

(***************************************************************************)
(* RunnerConfig                                                            *)
(***************************************************************************)
\* the run_rust override done field by field: a raw flag only ever sets its field
override_rust_per_field(instance, cmdline) ==
    [instance EXCEPT
        !.run_rust_tests = instance.run_rust_tests \/ cmdline.run_rust_tests,
        !.run_rust_benchmarks = instance.run_rust_benchmarks \/ cmdline.run_rust_benchmarks]

\* lines 260-263: either raw flag set replaces both fields by the raw values
override_rust(instance, cmdline) ==
    IF cmdline.run_rust_tests \/ cmdline.run_rust_benchmarks
    THEN [instance EXCEPT !.run_rust_tests = cmdline.run_rust_tests,
                          !.run_rust_benchmarks = cmdline.run_rust_benchmarks]
    ELSE instance

\* lines 264-269: allow_focus, then disallow_focus
override_focus(instance, cmdline) ==
    LET i1 == IF cmdline.allow_focus
              THEN [instance EXCEPT !.disallow_focus = FALSE] ELSE instance
    IN  IF cmdline.disallow_focus THEN [i1 EXCEPT !.disallow_focus = TRUE] ELSE i1

\* lines 270-275: allow_skip, then disallow_skip
override_skip(instance, cmdline) ==
    LET i1 == IF cmdline.allow_skip
              THEN [instance EXCEPT !.disallow_skip = FALSE] ELSE instance
    IN  IF cmdline.disallow_skip THEN [i1 EXCEPT !.disallow_skip = TRUE] ELSE i1

\* lines 276-281: mute_filters, then a non-empty raw filter list
override_filters(instance, cmdline) ==
    LET i1 == IF cmdline.mute_filters
              THEN [instance EXCEPT !.filters = << >>] ELSE instance
    IN  IF cmdline.filters # << >>
        THEN [i1 EXCEPT !.filters = cmdline.filters] ELSE i1

\* the keyword override without the mute_keyword step
override_keyword_keeps_muted(instance, cmdline) ==
    LET i2 == IF cmdline.ignore_keywords
              THEN [instance EXCEPT !.ignore_keywords = TRUE] ELSE instance
    IN  IF cmdline.keyword # << >>
        THEN [i2 EXCEPT !.keyword = cmdline.keyword] ELSE i2

\* lines 282-290: mute_keyword, ignore_keywords, then a non-empty raw keyword
override_keyword(instance, cmdline) ==
    LET i1 == IF cmdline.mute_keyword
              THEN [instance EXCEPT !.keyword = << >>] ELSE instance
        i2 == IF cmdline.ignore_keywords
              THEN [i1 EXCEPT !.ignore_keywords = TRUE] ELSE i1
    IN  IF cmdline.keyword # << >>
        THEN [i2 EXCEPT !.keyword = cmdline.keyword] ELSE i2

\* the early return of an interactive run left out
reads_cmdline_always(is_headless) ==
    TRUE

\* lines 254-256: the argument list is read only in a headless run
reads_cmdline(is_headless) ==
    is_headless

\* RunnerConfig::new, on the seven parameters d, the answer of
\* is_headless_run() and the argument list a
new(d, is_headless, a) ==
    LET instance == [disallow_focus |-> d.disallow_focus,
                     disallow_skip |-> d.disallow_skip,
                     run_rust_tests |-> d.run_rust_tests,
                     run_rust_benchmarks |-> d.run_rust_benchmarks,
                     ignore_keywords |-> d.ignore_keywords,
                     keyword |-> d.keyword,
                     filters |-> d.filters]
    IN  IF ~reads_cmdline(is_headless)
        THEN Ok(instance)
        ELSE LET cmdline == from_os(a)
             IN  IF cmdline.tag # "Ok"
                 THEN cmdline
                 ELSE Ok(override_keyword(
                            override_filters(
                              override_skip(
                                override_focus(
                                  override_rust(instance, cmdline.value),
                                  cmdline.value),
                                cmdline.value),
                              cmdline.value),
                            cmdline.value))

(***************************************************************************)
(* The inputs explored.  Besides the eleven names themselves (the two      *)
(* valued names bare, without '='), the argument lists draw on tokens with *)
(* values, with a second '=' or a ',' in the value, with a longer name in  *)
(* front of the '=', and on a token no scan takes.                         *)
(***************************************************************************)
\* "--foo"
ARG_FOO ==
    <<"-","-","f","o","o">>

\* "--keyword=a"
ARG_KEYWORD_A ==
    <<"-","-","k","e","y","w","o","r","d","=","a">>

\* "--keyword=b"
ARG_KEYWORD_B ==
    <<"-","-","k","e","y","w","o","r","d","=","b">>

\* "--keyword=a=b"
ARG_KEYWORD_A_EQ_B ==
    <<"-","-","k","e","y","w","o","r","d","=","a","=","b">>

\* "--keyword=a,b"
ARG_KEYWORD_A_COMMA_B ==
    <<"-","-","k","e","y","w","o","r","d","=","a",",","b">>

\* "--keyword=,a"
ARG_KEYWORD_COMMA_A ==
    <<"-","-","k","e","y","w","o","r","d","=",",","a">>

\* "--keyword==a"
ARG_KEYWORD_EQ_A ==
    <<"-","-","k","e","y","w","o","r","d","=","=","a">>

\* "--keywords=x"
ARG_KEYWORDS_X ==
    <<"-","-","k","e","y","w","o","r","d","s","=","x">>

\* "--filters=a"
ARG_FILTERS_A ==
    <<"-","-","f","i","l","t","e","r","s","=","a">>

\* "--filters=a,b"
ARG_FILTERS_A_B ==
    <<"-","-","f","i","l","t","e","r","s","=","a",",","b">>

\* "--filtersX=y"
ARG_FILTERSX_Y ==
    <<"-","-","f","i","l","t","e","r","s","X","=","y">>

PresenceFlags ==
    { CMD_USER_RUST_TESTS, CMD_USER_RUST_BENCHMARKS,
      CMD_USER_DISALLOW_FOCUS, CMD_USER_ALLOW_FOCUS,
      CMD_USER_DISALLOW_SKIP, CMD_USER_ALLOW_SKIP,
      CMD_USER_MUTE_KEYWORD, CMD_USER_IGNORE_KEYWORDS, CMD_USER_MUTE_FILTERS }

\* the tokens of the lists handed to CliConfig::from_os
ArgTokens ==
    PresenceFlags \cup
    { CMD_USER_KEYWORD, CMD_USER_FILTERS, ARG_FOO,
      ARG_KEYWORD_A, ARG_KEYWORD_B, ARG_KEYWORD_A_EQ_B, ARG_KEYWORD_A_COMMA_B,
      ARG_KEYWORD_COMMA_A, ARG_KEYWORD_EQ_A, ARG_KEYWORDS_X,
      ARG_FILTERS_A, ARG_FILTERS_A_B, ARG_FILTERSX_Y }

\* the tokens of the lists handed to RunnerConfig::new
NewArgTokens ==
    PresenceFlags \cup
    { CMD_USER_KEYWORD, ARG_FOO, ARG_KEYWORD_A, ARG_KEYWORD_A_COMMA_B, ARG_KEYWORDS_X,
      ARG_FILTERS_A_B }

\* the sequences over S of length at most n
SeqsUpTo(S, n) ==
    UNION { [1..k -> S] : k \in 0..n }

\* the parameters of RunnerConfig::new
DefaultKeywords == { << >>, <<"d">> }

DefaultFilters == { << >>, << <<"f">> >> }

Defaults ==
    [disallow_focus : BOOLEAN, disallow_skip : BOOLEAN,
     run_rust_tests : BOOLEAN, run_rust_benchmarks : BOOLEAN,
     ignore_keywords : BOOLEAN,
     keyword : DefaultKeywords, filters : DefaultFilters]

\* RunnerConfig::default() / the parameters when only the parser is exercised
NoDefaults ==
    [disallow_focus |-> FALSE, disallow_skip |-> FALSE,
     run_rust_tests |-> FALSE, run_rust_benchmarks |-> FALSE,
     ignore_keywords |-> FALSE, keyword |-> << >>, filters |-> << >>]

(***************************************************************************)
(* Spec: CliConfig::from_os called on every argument list.                 *)
(***************************************************************************)
Init ==
    /\ args \in SeqsUpTo(ArgTokens, MaxArgs)
    /\ headless = TRUE
    /\ defaults = NoDefaults
    /\ pc = "start"
    /\ cli = NotCalled
    /\ runner = NotCalled

CallFromOs ==
    /\ pc = "start"
    /\ cli' = from_os(args)
    /\ pc' = "from_os"
    /\ UNCHANGED <<args, headless, defaults, runner>>

Next == CallFromOs

Spec == Init /\ [][Next]_vars

(***************************************************************************)
(* SpecNew: RunnerConfig::new called on every argument list, with every    *)
(* combination of parameters, headless or not.                             *)
(***************************************************************************)
InitNew ==
    /\ args \in SeqsUpTo(NewArgTokens, MaxNewArgs)
    /\ headless \in BOOLEAN
    /\ defaults \in Defaults
    /\ pc = "start"
    /\ cli = NotCalled
    /\ runner = NotCalled

CallNew ==
    /\ pc = "start"
    /\ runner' = new(defaults, headless, args)
    /\ pc' = "new"
    /\ UNCHANGED <<args, headless, defaults, cli>>

NextNew == CallNew

SpecNew == InitNew /\ [][NextNew]_vars

(***************************************************************************)
(* Vocabulary of the properties.                                           *)
(***************************************************************************)
Contains(a, t) == \E i \in 1..Len(a) : a[i] = t

\* the token carries the name of a valued flag in front
NamesValuedFlag(t) ==
    starts_with(t, CMD_USER_KEYWORD) \/ starts_with(t, CMD_USER_FILTERS)

\* the text of a token after its first '='
AfterFirstEq(t) == SubSeq(t, find_char(t, "=") + 1, Len(t))

\* the token is name=V for the given name
HasForm(t, name) == starts_with(t, name \o <<"=">>)

IsMutexError(r) ==
    /\ r.tag = "Err"
    /\ r.error.format = "command line arguments {} and {} are mutually exclusive"

IsUnrecognizedError(r) ==
    /\ r.tag = "Err"
    /\ r.error.format = "unrecognized args provided: {:#?}"

\* the message of the error prints the token
MessageIncludes(r, t) == Contains(r.error.values, t)

ParserReturned == pc = "from_os"

NewReturned == pc = "new"

(***************************************************************************)
(* C6                                                                      *)
(***************************************************************************)
\* C6: every argument list holding both --allow-focus and --disallow-focus,
\* whatever else it holds, makes from_os return the mutual-exclusion error
\* that names --allow-focus and --disallow-focus.
C6_FocusPairRejected ==
    (/\ ParserReturned
     /\ Contains(args, CMD_USER_ALLOW_FOCUS)
     /\ Contains(args, CMD_USER_DISALLOW_FOCUS))
    => /\ IsMutexError(cli)
       /\ cli.error.values = <<CMD_USER_ALLOW_FOCUS, CMD_USER_DISALLOW_FOCUS>>

\* the pair in the order disallow, allow, followed by a valued name without '='
C6_Witness ==
    /\ ParserReturned
    /\ args = <<CMD_USER_DISALLOW_FOCUS, CMD_USER_ALLOW_FOCUS, CMD_USER_KEYWORD>>
    /\ IsMutexError(cli)

(***************************************************************************)
(* C4                                                                      *)
(***************************************************************************)
\* C4: every argument list holding a valued-flag token without '=' (the bare
\* --keyword or --filters) makes from_os return a ConfigError: it neither
\* panics nor returns a record.
C4_BareValuedFlagIsConfigError ==
    (/\ ParserReturned
     /\ \E i \in 1..Len(args) :
            NamesValuedFlag(args[i]) /\ find_char(args[i], "=") = 0)
    => cli.tag = "Err"

(***************************************************************************)
(* C8                                                                      *)
(***************************************************************************)
\* C8: when from_os returns a record for a list with a token --keyword=V, the
\* keyword of the record is V, the whole text after the token's first '='.
C8_KeywordIsTextAfterFirstEq ==
    (ParserReturned /\ cli.tag = "Ok")
    => \A i \in 1..Len(args) :
           HasForm(args[i], CMD_USER_KEYWORD)
           => cli.value.keyword = AfterFirstEq(args[i])

(***************************************************************************)
(* C2                                                                      *)
(***************************************************************************)
\* C2: every argument list holding --mute-keyword and a token --keyword=X with
\* X non-empty makes from_os fail with an error; no record is returned.
C2_MuteKeywordWithKeywordFails ==
    (/\ ParserReturned
     /\ Contains(args, CMD_USER_MUTE_KEYWORD)
     /\ \E i \in 1..Len(args) :
            HasForm(args[i], CMD_USER_KEYWORD) /\ AfterFirstEq(args[i]) # << >>)
    => cli.tag = "Err"

(***************************************************************************)
(* C9                                                                      *)
(***************************************************************************)
\* the token is the name of the valued flag followed by a character other
\* than '=', as --keywords=x and --filtersX=y
LongerName(t, name) ==
    /\ starts_with(t, name)
    /\ Len(t) > Len(name)
    /\ t[Len(name) + 1] # "="

\* C9: a token that begins with --keyword (or --filters) followed by a
\* character other than '=' is not taken by the scan for that flag: it stays
\* in the working list, so that from_os does not return a record, and when
\* the leftover check is reached its error lists the token.
C9_LongerNameNotConsumed ==
    (/\ ParserReturned
     /\ cli.tag \in {"Ok", "Err"})
    => \A i \in 1..Len(args) :
           (LongerName(args[i], CMD_USER_KEYWORD) \/ LongerName(args[i], CMD_USER_FILTERS))
           => /\ cli.tag = "Err"
              /\ IsUnrecognizedError(cli) => MessageIncludes(cli, args[i])

(***************************************************************************)
(* C10                                                                     *)
(***************************************************************************)
\* the later of two tokens for the same flag: the same presence flag twice, or
\* two tokens name=V for the same valued flag
LaterOccurrence(a, j) ==
    \E i \in 1..(j - 1) :
        \/ a[i] \in PresenceFlags /\ a[i] = a[j]
        \/ HasForm(a[i], CMD_USER_KEYWORD) /\ HasForm(a[j], CMD_USER_KEYWORD)
        \/ HasForm(a[i], CMD_USER_FILTERS) /\ HasForm(a[j], CMD_USER_FILTERS)

\* C10: when a list holds a later occurrence of a flag, from_os fails with the
\* unrecognized-arguments error listing that occurrence, unless a
\* mutual-exclusion check failed before.
C10_LaterOccurrenceLeftOver ==
    ParserReturned
    => \A j \in 1..Len(args) :
           LaterOccurrence(args, j)
           => \/ IsMutexError(cli)
              \/ IsUnrecognizedError(cli) /\ MessageIncludes(cli, args[j])

(***************************************************************************)
(* C3                                                                      *)
(***************************************************************************)
\* no scan of from_os matches the token: it equals no presence flag and does
\* not begin with the name of a valued flag (--foo)
Unmatched(t) ==
    /\ t \notin PresenceFlags
    /\ ~NamesValuedFlag(t)

\* the list holds a valued name without '=', on which the scan stops
HoldsBareValuedFlag(a) ==
    \E i \in 1..Len(a) : NamesValuedFlag(a[i]) /\ find_char(a[i], "=") = 0

C5_InteractiveIgnoresArgs ==
    (NewReturned /\ ~headless) => runner = Ok(defaults)

\* --disallow-focus given in an interactive run with disallow_focus = false,
\* next to a token the parser would reject
C5_Witness ==
    /\ NewReturned
    /\ ~headless
    /\ args = <<CMD_USER_DISALLOW_FOCUS, ARG_FOO>>
    /\ ~defaults.disallow_focus
    /\ runner.tag = "Ok"
    /\ ~runner.value.disallow_focus

(***************************************************************************)
(* C1                                                                      *)
(***************************************************************************)
\* headless, both run_rust parameters true, --rust-test given, --rust-bench
\* not, and the list accepted
C1_Case ==
    /\ NewReturned
    /\ headless
    /\ defaults.run_rust_tests
    /\ defaults.run_rust_benchmarks
    /\ Contains(args, CMD_USER_RUST_TESTS)
    /\ ~Contains(args, CMD_USER_RUST_BENCHMARKS)
    /\ runner.tag = "Ok"

\* C1 as stated: in that case the result has run_rust_tests = true and
\* run_rust_benchmarks = true.
C1_BothStayTrue ==
    C1_Case
    => /\ runner.value.run_rust_tests
       /\ runner.value.run_rust_benchmarks

\* C1 amended: in that case the result has run_rust_tests = true and
\* run_rust_benchmarks = false: both fields take the raw values.
C1_BothTakeRawValues ==
    C1_Case
    => /\ runner.value.run_rust_tests
       /\ ~runner.value.run_rust_benchmarks

C1_Witness ==
    /\ C1_Case
    /\ args = <<CMD_USER_RUST_TESTS, CMD_USER_IGNORE_KEYWORDS>>
    /\ ~runner.value.run_rust_benchmarks

(***************************************************************************)
(* C7                                                                      *)
(***************************************************************************)
NoneOf(s, chars) == \A i \in 1..Len(s) : s[i] \notin chars

\* --keyword=K with K non-empty and free of ',' and '='
WellFormedKeyword(t) ==
    /\ HasForm(t, CMD_USER_KEYWORD)
    /\ AfterFirstEq(t) # << >>
    /\ NoneOf(AfterFirstEq(t), {",", "="})

\* --filters=F1,...,Fn with every Fi non-empty and free of '='
WellFormedFilters(t) ==
    LET f == AfterFirstEq(t)
    IN  /\ HasForm(t, CMD_USER_FILTERS)
        /\ f # << >>
        /\ NoneOf(f, {"="})
        /\ f[1] # ","
        /\ f[Len(f)] # ","
        /\ \A i \in 1..(Len(f) - 1) : ~(f[i] = "," /\ f[i + 1] = ",")

\* every token of the form name=value is a well-formed --keyword or --filters
ValuedTokensWellFormed(a) ==
    \A i \in 1..Len(a) :
        find_char(a[i], "=") # 0 => WellFormedKeyword(a[i]) \/ WellFormedFilters(a[i])

\* F1,...,Fn written with commas between them
RECURSIVE JoinCommas(_)
JoinCommas(l) ==
    IF l = << >> THEN << >>
    ELSE IF Len(l) = 1 THEN l[1]
    ELSE l[1] \o <<",">> \o JoinCommas(Tail(l))

\* l is [F1,...,Fn] for the text F1,...,Fn
IsListOf(l, text) ==
    /\ l # << >>
    /\ JoinCommas(l) = text
    /\ \A i \in 1..Len(l) : NoneOf(l[i], {","})

C7_Case ==
    /\ NewReturned
    /\ headless
    /\ runner.tag = "Ok"
    /\ ValuedTokensWellFormed(args)

\* C7: in a headless run on an accepted list whose valued tokens are well
\* formed, disallow_focus, disallow_skip, keyword and filters each have the
\* value the list's token for the field gives, and the parameter's value when
\* the list has no token for the field; the empty list yields the parameters.
C7_FieldsFollowTokens ==
    C7_Case
    => LET r == runner.value
       IN  /\ r.disallow_focus =
                  (IF Contains(args, CMD_USER_DISALLOW_FOCUS) THEN TRUE
                   ELSE IF Contains(args, CMD_USER_ALLOW_FOCUS) THEN FALSE
                   ELSE defaults.disallow_focus)
           /\ r.disallow_skip =
                  (IF Contains(args, CMD_USER_DISALLOW_SKIP) THEN TRUE
                   ELSE IF Contains(args, CMD_USER_ALLOW_SKIP) THEN FALSE
                   ELSE defaults.disallow_skip)
           /\ IF \E i \in 1..Len(args) : HasForm(args[i], CMD_USER_KEYWORD)
              THEN \A i \in 1..Len(args) :
                       HasForm(args[i], CMD_USER_KEYWORD)
                       => r.keyword = AfterFirstEq(args[i])
              ELSE IF Contains(args, CMD_USER_MUTE_KEYWORD) THEN r.keyword = << >>
              ELSE r.keyword = defaults.keyword
           /\ IF \E i \in 1..Len(args) : HasForm(args[i], CMD_USER_FILTERS)
              THEN \A i \in 1..Len(args) :
                       HasForm(args[i], CMD_USER_FILTERS)
                       => IsListOf(r.filters, AfterFirstEq(args[i]))
              ELSE IF Contains(args, CMD_USER_MUTE_FILTERS) THEN r.filters = << >>
              ELSE r.filters = defaults.filters
           /\ args = << >> => r = defaults

\* a keyword and two filters given over a keyword and a filter of the caller
C7_Witness ==
    /\ C7_Case
    /\ args = <<ARG_FILTERS_A_B, ARG_KEYWORD_A>>
    /\ defaults.keyword = <<"d">>
    /\ defaults.filters = << <<"f">> >>
    /\ runner.value.keyword = <<"a">>
    /\ runner.value.filters = << <<"a">>, <<"b">> >>

====
